---- MODULE Spec2Model ----
(***************************************************************************)
(* Add-Ons backend (src/index.js) and storefront widget                   *)
(* (src/unnamed/part_000, served as public/add-ons-widget.js).             *)
(*                                                                         *)
(* The four routes of index.js are modelled as registered at start-up, each  *)
(* handler running to completion between its awaits (Node's event loop).   *)
(*                                                                         *)
(* JSON / JavaScript values are tagged records [t |-> <type>, v |-> ...];  *)
(* JSON objects are TLA+ records whose fields are such values, an absent   *)
(* property being a field that is not in the record's DOMAIN.              *)
(***************************************************************************)
EXTENDS Integers, Sequences, FiniteSets, Bags, TLC

\* ------------------------------------------------------------- bounds
\* longest add-on list a POST /api/settings payload carries
MaxLen == 2
\* longest page of product edges the catalog answers with
MaxEdges == 2
\* GET /api/addons handlers suspended on the outbound request at one time
MaxInflight == 2
\* submit-handler runs (cart requests) on one product page
MaxSubmits == 2

\* ------------------------------------------------------- JavaScript values
Undefined == [t |-> "undefined"]
Null == [t |-> "null"]
NaN == [t |-> "NaN"]
Num(n) == [t |-> "number", v |-> n]
Str(s) == [t |-> "string", v |-> s]
Arr(s) == [t |-> "array", v |-> s]

\* ToBoolean, as used by if (...), ! and ||
Truthy(x) ==
  CASE x.t = "undefined" -> FALSE
    [] x.t = "null" -> FALSE
    [] x.t = "NaN" -> FALSE
    [] x.t = "number" -> x.v # 0
    [] x.t = "string" -> x.v # ""
    [] OTHER -> TRUE

\* a || b
OrElse(a, b) == IF Truthy(a) THEN a ELSE b

IsArray(x) == x.t = "array"

\* String(n) of a non-negative integer, as a sequence of decimal digits: the
\* property key JavaScript derives from a numeric product_id, and the form in
\* which a product id travels in the request path.
RECURSIVE NumberToString(_)
NumberToString(n) == IF n < 10 THEN <<n>> ELSE NumberToString(n \div 10) \o <<n % 10>>

\* parseInt(s, 10) of a string of decimal digits
RECURSIVE ParseInt(_)
ParseInt(s) ==
  IF Len(s) = 0 THEN 0
  ELSE 10 * ParseInt(SubSeq(s, 1, Len(s) - 1)) + s[Len(s)]

\* all sequences over S of length at most n
SeqsUpTo(S, n) == UNION {[1..k -> S] : k \in 0..n}

\* ------------------------------------------------------------ universes
\* primary product ids of the storefront
ProductIds == {1, 12}

\* :productId path parameters
PathParams == {NumberToString(p) : p \in ProductIds}

\* AddOnReference objects a settings payload may list
AddOnReferences ==
  { [product_id |-> Num(111), variant_id |-> Num(222)],
    [product_id |-> Num(113), variant_id |-> Null] }

\* req.body.product_id: absent, 0, or a product id
PostedProductIds == {Undefined, Num(0)} \cup {Num(p) : p \in ProductIds}

\* req.body.addons: absent, a non-array, or an array of references
PostedAddons ==
  {Undefined, Str("111")} \cup {Arr(s) : s \in SeqsUpTo(AddOnReferences, MaxLen)}

\* process.env values: unset or a non-empty string
EnvValues == {Undefined, Str("set")}

\* node.variants of a catalog product (variants(first: 1)): no edge, or one
NoVariant == [edges |-> <<>>]
OneVariant == [edges |-> << [node |-> [entityId |-> Num(7)]] >>]

\* product nodes of the category: for each product id a complete one and one
\* whose leaves are missing (no price in prices, no variant edge), and one
\* product that has no prices object at all
CatalogNodes ==
  { [entityId |-> Num(p), name |-> Str("Gift wrap"), prices |-> sh[1], variants |-> sh[2]] :
      p \in ProductIds,
      sh \in { <<[price |-> [value |-> Num(5)]], OneVariant>>,
               <<[price |-> Null], NoVariant>> } }
  \cup { [entityId |-> Num(12), name |-> Str("Gift wrap"), prices |-> Null,
          variants |-> OneVariant] }

\* pages of edges: json.data.site.category.products.edges
EdgePages == SeqsUpTo({[node |-> n] : n \in CatalogNodes}, MaxEdges)

\* the JSON envelope of the catalog service: {data}, {errors} or both. data
\* stands for the chain data.site.category.products.edges, Null when any link
\* of it is missing.
Envelopes ==
  { [errors |-> e, data |-> d] :
      e \in {Undefined, Arr(<<Str("upstream")>>)},
      d \in {Null} \cup {Arr(p) : p \in EdgePages} }

\* ---------------------------------------------------------------- state
VARIABLES
  env,            \* process.env: ADD_ON_CATEGORY_ID, token, store hash
  addOnMappings,  \* the in-memory mapping table, by property key
  pending,        \* suspended GET handlers: a bag of <<productId, await point>>
  lastRes,        \* the most recent HTTP exchange: request and response sent
  lastAccepted,   \* history: addons of the latest accepted POST, by key
  page,           \* the widget's product page: init() progress, UI, form
  cart,           \* the widget's cart requests
  location        \* window.location of the product page

serverVars == <<env, addOnMappings, pending, lastRes, lastAccepted>>
widgetVars == <<page, cart, location>>
vars == <<serverVars, widgetVars>>

NoExchange == [route |-> "none"]

\* ------------------------------------------------------- server: helpers
\* the property key of addOnMappings[product_id] for a numeric product_id
PropertyKey(product_id) == NumberToString(product_id.v)

\* !product_id || !Array.isArray(addons), negated
ValidPayloadIdOnly(product_id, addons) == Truthy(product_id)
ValidPayload(product_id, addons) == Truthy(product_id) /\ IsArray(addons)

\* addOnMappings[product_id] = addons
PutMerged(table, key, addons) ==
  [table EXCEPT ![key] = IF IsArray(@) THEN Arr(@.v \o addons.v) ELSE addons]
PutAll(table, key, addons) == [k \in DOMAIN table |-> addons]
Put(table, key, addons) == [table EXCEPT ![key] = addons]

\* if (addOnMappings[productId])
HasMappingNonEmpty(table, productId) ==
  IsArray(table[productId]) /\ Len(table[productId].v) > 0
HasMapping(table, productId) == Truthy(table[productId])

\* the addons of res.json({ addons: addOnMappings[productId] })
ManualAnswerTranslated(table, productId) ==
  Arr([i \in 1..Len(table[productId].v) |->
         [ product_id |-> table[productId].v[i].product_id,
           variant_id |-> table[productId].v[i].variant_id,
           name |-> Null, price |-> Null ]])
ManualAnswer(table, productId) == table[productId]

\* !categoryId || !storefrontToken || !storeHash, negated
ConfiguredCategoryOnly(e) == Truthy(e.categoryId)
Configured(e) ==
  Truthy(e.categoryId) /\ Truthy(e.storefrontToken) /\ Truthy(e.storeHash)

\* json?.data?.site?.category?.products?.edges || []
EdgesOf(json) == IF json.data = Null THEN <<>> ELSE json.data.v

\* what a TypeError thrown inside the try block leaves instead of a value
Thrown == [t |-> "TypeError"]

\* the .map callback: one product node to one add-on object. Reading
\* node.variants.edges or node.prices.price of a null throws.
MapNode(node) ==
  IF node.variants = Null \/ node.prices = Null THEN Thrown
  ELSE
    LET variantEdge ==
          IF Len(node.variants.edges) >= 1 THEN node.variants.edges[1] ELSE Undefined
        variantId ==
          IF variantEdge = Undefined \/ variantEdge.node = Null THEN Undefined
          ELSE variantEdge.node.entityId
        priceValue ==
          IF node.prices.price = Null THEN Undefined ELSE node.prices.price.value
    IN [ product_id |-> node.entityId,
         variant_id |-> OrElse(variantId, Null),
         name |-> node.name,
         price |-> OrElse(priceValue, Null) ]

\* .filter(item => item.product_id !== parseInt(productId, 10))
NotSelf(item, productId) == item.product_id # Num(ParseInt(productId))

\* edges.map(...).filter(...): the add-on array, or Thrown when a node throws
Transform(edges, productId) ==
  IF \E i \in 1..Len(edges) : MapNode(edges[i].node) = Thrown THEN Thrown
  ELSE Arr(SelectSeq([i \in 1..Len(edges) |-> MapNode(edges[i].node)],
                     LAMBDA item : NotSelf(item, productId)))

\* ------------------------------------------------------ server: responses
AddonsOk(productId, addons, src) ==
  [ route |-> "addons", req |-> productId, status |-> 200,
    body |-> [addons |-> addons], src |-> src ]

AddonsFailed(productId, src) ==
  [ route |-> "addons", req |-> productId, status |-> 500,
    body |-> [error |-> Str("Failed to fetch add-ons from BigCommerce")], src |-> src ]

SettingsRejected(payload) ==
  [ route |-> "settings", req |-> payload, status |-> 400,
    body |-> [error |-> Str("Invalid payload")] ]

SettingsOk(payload) ==
  [ route |-> "settings", req |-> payload, status |-> 200,
    body |-> [success |-> TRUE] ]

\* the response of the try block once response.json() has resolved with json
CategoryResponse(productId, json) ==
  LET addons == Transform(EdgesOf(json), productId)
  IN IF addons = Thrown
     THEN AddonsFailed(productId, "category") @@ [json |-> json]
     ELSE AddonsOk(productId, addons, "category") @@ [json |-> json]

\* ------------------------------------------------------- server: actions
ServerInit ==
  /\ env \in [categoryId : EnvValues, storefrontToken : EnvValues, storeHash : EnvValues]
  /\ addOnMappings = [k \in PathParams |-> Undefined]
  /\ pending = EmptyBag
  /\ lastRes = NoExchange
  /\ lastAccepted = [k \in PathParams |-> Undefined]

\* app.post('/api/settings', ...)
PostSettings(product_id, addons) ==
  LET payload == [product_id |-> product_id, addons |-> addons]
  IN /\ IF ~ValidPayload(product_id, addons)
        THEN /\ lastRes' = SettingsRejected(payload)
             /\ UNCHANGED <<addOnMappings, lastAccepted>>
        ELSE /\ addOnMappings' = Put(addOnMappings, PropertyKey(product_id), addons)
             /\ lastAccepted' = [lastAccepted EXCEPT ![PropertyKey(product_id)] = addons]
             /\ lastRes' = SettingsOk(payload)
     /\ UNCHANGED <<env, pending, widgetVars>>

\* app.get('/api/addons/:productId', ...) up to its first await
GetAddons(productId) ==
  /\ \/ /\ HasMapping(addOnMappings, productId)
        /\ lastRes' = AddonsOk(productId, ManualAnswer(addOnMappings, productId), "manual")
        /\ UNCHANGED pending
     \/ /\ ~HasMapping(addOnMappings, productId)
        /\ ~Configured(env)
        /\ lastRes' = AddonsOk(productId, Arr(<<>>), "fallback")
        /\ UNCHANGED pending
     \/ /\ ~HasMapping(addOnMappings, productId)
        /\ Configured(env)
        /\ BagCardinality(pending) < MaxInflight
        /\ pending' = pending (+) SetToBag({<<productId, "fetch">>})
        /\ UNCHANGED lastRes
  /\ UNCHANGED <<env, addOnMappings, lastAccepted, widgetVars>>

\* await fetch(url, ...) rejects: a transport failure, caught by the handler
FetchRejects(productId) ==
  /\ BagIn(<<productId, "fetch">>, pending)
  /\ pending' = pending (-) SetToBag({<<productId, "fetch">>})
  /\ lastRes' = AddonsFailed(productId, "transport")
  /\ UNCHANGED <<env, addOnMappings, lastAccepted, widgetVars>>

\* await fetch(url, ...) resolves with a response of any status
FetchResolves(productId) ==
  /\ BagIn(<<productId, "fetch">>, pending)
  /\ pending' = (pending (-) SetToBag({<<productId, "fetch">>}))
                  (+) SetToBag({<<productId, "json">>})
  /\ UNCHANGED <<env, addOnMappings, lastRes, lastAccepted, widgetVars>>

\* await response.json() rejects: the body is not JSON
JsonRejects(productId) ==
  /\ BagIn(<<productId, "json">>, pending)
  /\ pending' = pending (-) SetToBag({<<productId, "json">>})
  /\ lastRes' = AddonsFailed(productId, "transport")
  /\ UNCHANGED <<env, addOnMappings, lastAccepted, widgetVars>>

\* await response.json() resolves with json; the rest of the try block runs
JsonResolves(productId, json) ==
  /\ BagIn(<<productId, "json">>, pending)
  /\ pending' = pending (-) SetToBag({<<productId, "json">>})
  /\ lastRes' = CategoryResponse(productId, json)
  /\ UNCHANGED <<env, addOnMappings, lastAccepted, widgetVars>>

\* ------------------------------------------------------------ the widget
\* window.BCData of the product page
BCData == [product |-> [id |-> Num(1), variants |-> << [id |-> Num(3)] >>]]

\* data.addons of the add-on fetch, as the page may receive it
FetchedAddons == SeqsUpTo(AddOnReferences, MaxLen)

\* the qty[] field of the product form: empty, or a count
QtyFields == {Str(""), Num(1), Num(2)}

\* the statuses with which the cart endpoint may answer a request
CartStatuses == {"2xx", "non-2xx"}

\* el.setAttribute(key, value): the attribute holds String(value)
AttrOf(value) ==
  IF value.t = "number" THEN [t |-> "digits", v |-> NumberToString(value.v)]
  ELSE Str(value.t)

\* parseInt(input.getAttribute(...), 10)
ParseAttr(attr) == IF attr.t = "digits" THEN Num(ParseInt(attr.v)) ELSE NaN

\* renderAddOnUI: one checkbox per add-on, unchecked; null for an empty list
RenderAddOnUI(addons) ==
  [i \in 1..Len(addons) |->
     [ dataProductId |-> AttrOf(addons[i].product_id),
       dataVariantId |-> AttrOf(addons[i].variant_id),
       checked |-> FALSE ]]

\* querySelectorAll('input[type="checkbox"]:checked'), in document order
Selected(ui) == SelectSeq(ui, LAMBDA input : input.checked)

\* the line items the submit handler builds
LineItems(qtyField, selected) ==
  LET quantity == OrElse(qtyField, Num(1))
      first == BCData.product.variants
      mainVariantId == IF Len(first) >= 1 THEN OrElse(first[1].id, Null) ELSE Null
  IN << [product_id |-> BCData.product.id, variant_id |-> mainVariantId,
         quantity |-> quantity] >>
     \o [i \in 1..Len(selected) |->
           [ product_id |-> ParseAttr(selected[i].dataProductId),
             variant_id |-> ParseAttr(selected[i].dataVariantId),
             quantity |-> Num(1) ]]

WidgetInit ==
  /\ page = [pc |-> "loading", ui |-> <<>>, qty |-> Str("")]
  /\ cart = [pending |-> 0, issued |-> 0, handled |-> 0, body |-> Null]
  /\ location = [href |-> "/product", by |-> "none", after |-> "none"]

\* init(): the add-on fetch settles, the UI is rendered and the submit
\* handler attached; without add-ons (or on a failed fetch) nothing is attached
InitCompletes(resOk, addons) ==
  /\ page.pc = "loading"
  /\ LET shown == IF resOk THEN addons ELSE <<>>
     IN page' = IF Len(shown) = 0
                THEN [page EXCEPT !.pc = "inert"]
                ELSE [page EXCEPT !.pc = "ready", !.ui = RenderAddOnUI(shown)]
  /\ UNCHANGED <<cart, location, serverVars>>

\* the shopper ticks or unticks an add-on
Toggle(i) ==
  /\ page.pc = "ready"
  /\ i \in 1..Len(page.ui)
  /\ page' = [page EXCEPT !.ui[i].checked = ~page.ui[i].checked]
  /\ UNCHANGED <<cart, location, serverVars>>

\* the shopper edits the quantity field
SetQty(q) ==
  /\ page.pc \in {"ready", "inert"}
  /\ page' = [page EXCEPT !.qty = q]
  /\ UNCHANGED <<cart, location, serverVars>>

\* the form is submitted where no handler intervenes: the browser posts it
\* to its action, /cart.php
NativeSubmit ==
  /\ \/ page.pc = "inert"
     \/ page.pc = "ready" /\ Len(Selected(page.ui)) = 0
  /\ page' = [page EXCEPT !.pc = "left"]
  /\ location' = [href |-> "/cart.php", by |-> "form", after |-> "none"]
  /\ UNCHANGED <<cart, serverVars>>

\* the submit listener with add-ons selected, up to its await
Submit ==
  /\ page.pc = "ready"
  /\ Len(Selected(page.ui)) > 0
  /\ cart.issued < MaxSubmits
  /\ cart' = [ pending |-> cart.pending + 1, issued |-> cart.issued + 1,
               handled |-> cart.handled + 1,
               body |-> [line_items |-> LineItems(page.qty, Selected(page.ui))] ]
  /\ UNCHANGED <<page, location, serverVars>>

\* await fetch('/api/storefront/cart', ...) resolves, with any status: the
\* handler assigns window.location.href
CartResolves(status) ==
  /\ page.pc = "ready"
  /\ cart.pending > 0
  /\ cart' = [cart EXCEPT !.pending = cart.pending - 1]
  /\ page' = [page EXCEPT !.pc = "left"]
  /\ location' = [href |-> "/cart.php", by |-> "handler", after |-> status]
  /\ UNCHANGED serverVars

\* await fetch('/api/storefront/cart', ...) rejects: console.error only
CartRejects ==
  /\ page.pc = "ready"
  /\ cart.pending > 0
  /\ cart' = [cart EXCEPT !.pending = cart.pending - 1]
  /\ UNCHANGED <<page, location, serverVars>>

WidgetNext ==
  \/ \E resOk \in BOOLEAN, addons \in FetchedAddons : InitCompletes(resOk, addons)
  \/ \E i \in 1..MaxLen : Toggle(i)
  \/ \E q \in QtyFields : SetQty(q)
  \/ NativeSubmit
  \/ Submit
  \/ \E status \in CartStatuses : CartResolves(status)
  \/ CartRejects

Init == ServerInit /\ WidgetInit

Next ==
  \/ \E product_id \in PostedProductIds, addons \in PostedAddons :
       PostSettings(product_id, addons)
  \/ \E productId \in PathParams : GetAddons(productId)
  \/ \E productId \in PathParams : FetchRejects(productId)
  \/ \E productId \in PathParams : FetchResolves(productId)
  \/ \E productId \in PathParams : JsonRejects(productId)
  \/ \E productId \in PathParams, json \in Envelopes : JsonResolves(productId, json)

Spec == Init /\ [][Next]_vars

\* the category-driven mode alone: store credentials and category configured,
\* no manual mapping ever posted
CatalogInit ==
  Init /\ env = [categoryId |-> Str("set"), storefrontToken |-> Str("set"),
                 storeHash |-> Str("set")]

CatalogNext ==
  \/ \E productId \in PathParams : GetAddons(productId)
  \/ \E productId \in PathParams : FetchRejects(productId)
  \/ \E productId \in PathParams : FetchResolves(productId)
  \/ \E productId \in PathParams : JsonRejects(productId)
  \/ \E productId \in PathParams, json \in Envelopes : JsonResolves(productId, json)

CatalogSpec == CatalogInit /\ [][CatalogNext]_vars

\* the settings endpoint and the handler's synchronous answers: the catalog
\* is not (fully) configured, so no GET ever suspends
SettingsInit ==
  Init /\ env # [categoryId |-> Str("set"), storefrontToken |-> Str("set"),
                 storeHash |-> Str("set")]

SettingsNext ==
  \/ \E product_id \in PostedProductIds, addons \in PostedAddons :
       PostSettings(product_id, addons)
  \/ \E productId \in PathParams : GetAddons(productId)

SettingsSpec == SettingsInit /\ [][SettingsNext]_vars

\* the requests for one product id: its GETs and POSTs interleave at the
\* awaits, under every configuration, the category holding at most one product
ContendedProduct == Num(12)

ShortEnvelopes == {json \in Envelopes : Len(EdgesOf(json)) <= 1}

ContentionNext ==
  \/ \E product_id \in {Undefined, ContendedProduct}, addons \in PostedAddons :
       PostSettings(product_id, addons)
  \/ GetAddons(PropertyKey(ContendedProduct))
  \/ FetchRejects(PropertyKey(ContendedProduct))
  \/ FetchResolves(PropertyKey(ContendedProduct))
  \/ JsonRejects(PropertyKey(ContendedProduct))
  \/ \E json \in ShortEnvelopes : JsonResolves(PropertyKey(ContendedProduct), json)

ContentionSpec == Init /\ [][ContentionNext]_vars

\* the storefront page alone, the backend idle and unconfigured
WidgetSpecInit == Init /\ env = [categoryId |-> Undefined, storefrontToken |-> Undefined,
                                 storeHash |-> Undefined]

WidgetSpec == WidgetSpecInit /\ [][WidgetNext]_vars

\* ------------------------------------------------------------ properties
\* the product id a canonical path parameter denotes
ReqId(req) == CHOOSE p \in ProductIds : NumberToString(p) = req

\* the catalog edges other than the queried product's, in catalog order
NonSelfEdges(json, req) ==
  SelectSeq(EdgesOf(json), LAMBDA e : e.node.entityId.v # ReqId(req))

MissingPrice(node) == node.prices = Null \/ node.prices.price = Null
MissingVariant(node) == node.variants = Null \/ Len(node.variants.edges) = 0

IsManualAnswer == lastRes.route = "addons" /\ lastRes.src = "manual"
IsCategoryAnswer == lastRes.route = "addons" /\ lastRes.src = "category"

\* an AddOnReference turned into an AddOnDescriptor without display data
AsDescriptor(ref) ==
  [ product_id |-> ref.product_id, variant_id |-> ref.variant_id,
    name |-> Null, price |-> Null ]

\* C1, as stated: once a POST of a non-empty list L for p is accepted, the
\* next GET for p answers 200 with L's entries in order, each carrying
\* name = null and price = null.
C1_Original ==
  ( /\ lastRes.route = "addons"
    /\ IsArray(lastAccepted[lastRes.req])
    /\ Len(lastAccepted[lastRes.req].v) > 0 )
  => /\ lastRes.status = 200
     /\ lastRes.body.addons =
          Arr([i \in 1..Len(lastAccepted[lastRes.req].v) |->
                 AsDescriptor(lastAccepted[lastRes.req].v[i])])

\* C1, amended: once a POST of a non-empty list L for p is accepted, the next
\* GET for p answers 200 with exactly the entries of L, in L's order, each
\* entry as it was posted: no name and no price field is added.
C1_ManualMappingReturnedAsPosted ==
  ( /\ lastRes.route = "addons"
    /\ IsArray(lastAccepted[lastRes.req])
    /\ Len(lastAccepted[lastRes.req].v) > 0 )
  => /\ lastRes.status = 200
     /\ lastRes.src = "manual"
     /\ lastRes.body.addons = lastAccepted[lastRes.req]
     /\ \A i \in 1..Len(lastRes.body.addons.v) :
          DOMAIN lastRes.body.addons.v[i] = {"product_id", "variant_id"}

C1_Witness ==
  /\ IsManualAnswer
  /\ Len(lastRes.body.addons.v) = 2
  /\ lastRes.body.addons.v[1] # lastRes.body.addons.v[2]
  /\ lastRes.body.addons = lastAccepted[lastRes.req]

\* C2: when the catalog's answer has a top-level errors field, the GET
\* answers 500 with an {error} body, never 200 with an addons array.
C2_ErrorsEnvelopeIsFatal ==
  (IsCategoryAnswer /\ Truthy(lastRes.json.errors))
  => (lastRes.status = 500 /\ DOMAIN lastRes.body = {"error"})

\* a GET step that answered at once, from the given source
AnsweredNow(src) ==
  lastRes' # lastRes /\ lastRes'.route = "addons" /\ lastRes'.src = src

\* a GET step for productId that went on to the catalog request
Suspended(productId) ==
  CopiesIn(<<productId, "fetch">>, pending') > CopiesIn(<<productId, "fetch">>, pending)

\* C3, as stated: a stored mapping is returned directly only when it is a
\* non-empty sequence; in particular, with a category configured, the GET
\* after POST {product_id: p, addons: []} is not answered with the stored
\* empty list.
C3_Original ==
  ( /\ Truthy(env.categoryId) /\ Truthy(env.storefrontToken) /\ Truthy(env.storeHash)
    /\ IsManualAnswer )
  => Len(lastRes.body.addons.v) > 0

\* C3, amended: a stored mapping is returned directly whenever the table
\* holds an entry for productId, an empty sequence included (after POST
\* {product_id: p, addons: []} GET p answers the empty list); only with no
\* entry is the catalog queried, when category id, token and store hash are
\* all configured, and the empty sequence returned with 200 otherwise.
C3_EntryThenCategoryThenEmpty ==
  [][ /\ AnsweredNow("manual")
         => /\ addOnMappings[lastRes'.req] # Undefined
            /\ lastRes'.status = 200
            /\ lastRes'.body = [addons |-> addOnMappings[lastRes'.req]]
      /\ AnsweredNow("fallback")
         => /\ addOnMappings[lastRes'.req] = Undefined
            /\ ~( /\ Truthy(env.categoryId)
                  /\ Truthy(env.storefrontToken)
                  /\ Truthy(env.storeHash) )
            /\ lastRes'.status = 200
            /\ lastRes'.body = [addons |-> Arr(<<>>)]
      /\ \A productId \in PathParams :
           Suspended(productId)
           => /\ addOnMappings[productId] = Undefined
              /\ Truthy(env.categoryId)
              /\ Truthy(env.storefrontToken)
              /\ Truthy(env.storeHash) ]_vars

C3_Witness ==
  /\ IsManualAnswer
  /\ lastRes.body = [addons |-> Arr(<<>>)]
  /\ Truthy(env.categoryId) /\ Truthy(env.storefrontToken) /\ Truthy(env.storeHash)
  /\ BagIn(<<lastRes.req, "fetch">>, pending)

\* the store credentials are incomplete although a category is configured
CategoryWithoutCredentials ==
  /\ Truthy(env.categoryId)
  /\ ~(Truthy(env.storefrontToken) /\ Truthy(env.storeHash))

\* C4, as stated: with a category id configured but the store hash or the
\* token missing, a GET without manual mapping sends no catalog request and
\* surfaces a failure with an error, not a 200 with an empty addons array.
C4_Original ==
  (CategoryWithoutCredentials /\ lastRes.route = "addons" /\ lastRes.src # "manual")
  => /\ BagCardinality(pending) = 0
     /\ lastRes.status # 200
     /\ "error" \in DOMAIN lastRes.body

\* C4, amended: with a category id configured but the store hash or the token
\* missing, a GET without manual mapping sends no catalog request and answers
\* 200 with an empty addons array; no error is surfaced.
C4_MissingCredentialsFallBackToEmpty ==
  CategoryWithoutCredentials
  => /\ BagCardinality(pending) = 0
     /\ (lastRes.route = "addons" /\ lastRes.src # "manual")
        => /\ lastRes.src = "fallback"
           /\ lastRes.status = 200
           /\ lastRes.body = [addons |-> Arr(<<>>)]

C4_Witness ==
  /\ CategoryWithoutCredentials
  /\ lastRes.route = "addons"
  /\ lastRes.src = "fallback"
  /\ \E k \in DOMAIN addOnMappings : IsArray(addOnMappings[k])

\* C5: in category-driven mode the returned addons are exactly the catalog
\* entries whose product id differs from the queried one, in catalog order.
C5_CategoryAddonsAreNonSelfEntries ==
  IsCategoryAnswer
  => /\ lastRes.status = 200
     /\ LET keep == NonSelfEdges(lastRes.json, lastRes.req)
            addons == lastRes.body.addons.v
        IN /\ Len(addons) = Len(keep)
           /\ \A j \in 1..Len(keep) :
                /\ addons[j].product_id = keep[j].node.entityId
                /\ addons[j].name = keep[j].node.name

\* C6: a catalog entry without a price or without variants never fails the
\* request: the answer is 200 and the entry carries price = null
\* (respectively variant_id = null).
C6_MissingLeavesDegradeToNull ==
  ( /\ IsCategoryAnswer
    /\ ~Truthy(lastRes.json.errors)
    /\ \E i \in 1..Len(EdgesOf(lastRes.json)) :
         \/ MissingPrice(EdgesOf(lastRes.json)[i].node)
         \/ MissingVariant(EdgesOf(lastRes.json)[i].node) )
  => /\ lastRes.status = 200
     /\ LET keep == NonSelfEdges(lastRes.json, lastRes.req)
            addons == lastRes.body.addons.v
        IN /\ Len(addons) = Len(keep)
           /\ \A j \in 1..Len(keep) :
                /\ MissingPrice(keep[j].node) => addons[j].price = Null
                /\ MissingVariant(keep[j].node) => addons[j].variant_id = Null

\* C7: a POST /api/settings without product_id, or whose addons is no array,
\* is answered 400 with an {error} body and leaves the mapping table as it was.
C7_InvalidPayloadRejected ==
  [][ ( /\ lastRes'.route = "settings"
        /\ \/ lastRes'.req.product_id = Undefined
           \/ ~IsArray(lastRes'.req.addons) )
      => /\ lastRes'.status = 400
         /\ DOMAIN lastRes'.body = {"error"}
         /\ addOnMappings' = addOnMappings ]_vars

C7_Witness ==
  /\ lastRes.route = "settings"
  /\ lastRes.status = 400
  /\ lastRes.req.product_id = Undefined
  /\ IsArray(lastRes.req.addons)
  /\ Len(lastRes.req.addons.v) > 0
  /\ \E k \in DOMAIN addOnMappings : IsArray(addOnMappings[k])

\* C8: the table holds for each product id at most one sequence, the addons
\* of the latest accepted POST for that id: a later POST replaces the list
\* (no merge, no append) and leaves the other ids' entries alone.
C8_LastAcceptedPostWins ==
  \A k \in DOMAIN addOnMappings :
    /\ addOnMappings[k] = lastAccepted[k]
    /\ addOnMappings[k] = Undefined \/ IsArray(addOnMappings[k])

C8_Witness ==
  /\ lastRes.route = "settings"
  /\ lastRes.status = 200
  /\ \A k \in DOMAIN addOnMappings : IsArray(addOnMappings[k])
  /\ \E k \in DOMAIN addOnMappings :
       /\ k # PropertyKey(lastRes.req.product_id)
       /\ addOnMappings[k] # lastRes.req.addons
       /\ Len(addOnMappings[k].v) > Len(lastRes.req.addons.v)

\* C9: with an add-on checked the submit handler navigates to /cart.php only
\* after its cart request has succeeded, and issues one request per run.
C9_NavigatesOnlyAfterSuccess ==
  /\ cart.issued = cart.handled
  /\ location.by = "handler" => location.after = "2xx"

\* C10: however GETs and POSTs for a product interleave, a GET answered from
\* the manual mapping returns the complete list of one accepted POST for it,
\* the latest, which is what the table holds: never a mixture of two lists.
C10_ManualAnswerIsOneWholeList ==
  IsManualAnswer
  => /\ lastRes.body.addons = lastAccepted[lastRes.req]
     /\ lastRes.body.addons = addOnMappings[lastRes.req]

C10_Witness ==
  /\ IsManualAnswer
  /\ Len(lastRes.body.addons.v) = 2
  /\ BagIn(<<lastRes.req, "json">>, pending)
  /\ BagIn(<<lastRes.req, "fetch">>, pending)

====
